---- MODULE Spec2Model ----
(***************************************************************************)
(* A model of PyMCCRON-gui: the RCONService binding over the mcipc client  *)
(* (src/src/rcon_service/RCONService.py) and the MinecraftRCONGUI front    *)
(* end that drives it (src/src/MainGUI.py).                                *)
(*                                                                         *)
(* The mcipc Client is an external library: every call on it is modelled   *)
(* with all the outcomes it can have (return or raise).                    *)
(***************************************************************************)
EXTENDS Integers, Sequences, FiniteSets, TLC

\* ------------------------------------------------------------------ bounds
\* Number of mcipc Client objects one run may construct.
MaxClients == 2
\* Number of console lines a run of the GUI may write.
MaxConsole == 5
\* Number of root.after callbacks that may be pending at once.
MaxAfter == 1
\* Number of log records and console lines one of two paired runs may write.
MaxLog == 4
\* Largest payload, in bytes, one packet may carry (the protocol maximum).
ProtocolMax == 2
\* Number of players the server lets be online at once.
MaxPlayers == 1

\* ------------------------------------------------------------ value spaces
None == 0

\* The password the server accepts, and the passwords a caller may supply.
ServerPassword == "good"
Passwords == {"good", "bad"}

\* Raw command texts handed to send_command.
Commands == {"time set day", "time set night"}

\* Every command operation of rcon_service.RCONService that reaches the
\* client directly (one call on self.client after _ensure_connected).
DirectOps ==
    {"get_player_list", "get_player_count", "kick_player", "ban_player",
     "pardon_player", "op_player", "deop_player", "whitelist_add",
     "whitelist_remove", "whitelist_list", "whitelist_on", "whitelist_off",
     "whitelist_reload", "stop_server", "broadcast_message", "tell_player",
     "set_time", "add_time", "get_time", "set_weather", "set_difficulty",
     "set_gamemode", "teleport_player", "teleport_player_to_player",
     "give_item", "clear_player_inventory", "get_seed"}

\* Command operations that format a text and delegate to send_command.
ViaSendOps ==
    {"save_all", "save_on", "save_off", "reload_server", "send_title",
     "get_server_version", "get_tps", "execute_as_player",
     "set_spawn_protection", "set_gamerule", "get_gamerule"}

CommandOps == {"send_command"} \cup DirectOps \cup ViaSendOps

\* The method of the mcipc client a direct operation calls.
ClientMethod(op) ==
    CASE op \in {"get_player_list", "get_player_count"} -> "list"
      [] op = "kick_player" -> "kick"
      [] op = "ban_player" -> "ban"
      [] op = "pardon_player" -> "pardon"
      [] op = "op_player" -> "op"
      [] op = "deop_player" -> "deop"
      [] op \in {"whitelist_add", "whitelist_remove", "whitelist_list",
                 "whitelist_on", "whitelist_off", "whitelist_reload"} -> "whitelist"
      [] op = "stop_server" -> "stop"
      [] op = "broadcast_message" -> "say"
      [] op = "tell_player" -> "tell"
      [] op \in {"set_time", "add_time", "get_time"} -> "time"
      [] op = "set_weather" -> "weather"
      [] op = "set_difficulty" -> "difficulty"
      [] op = "set_gamemode" -> "gamemode"
      [] op \in {"teleport_player", "teleport_player_to_player"} -> "tp"
      [] op = "give_item" -> "give"
      [] op = "clear_player_inventory" -> "clear"
      [] op = "get_seed" -> "seed"
      [] OTHER -> "run"

\* The command text a delegating operation hands to send_command.
CommandText(op) ==
    CASE op = "save_all" -> "save-all flush"
      [] op = "save_on" -> "save-on"
      [] op = "save_off" -> "save-off"
      [] op = "reload_server" -> "reload"
      [] op = "send_title" -> "title"
      [] op = "get_server_version" -> "version"
      [] op = "get_tps" -> "tps"
      [] op = "execute_as_player" -> "execute as"
      [] op = "set_spawn_protection" -> "gamerule spawnRadius"
      [] op = "set_gamerule" -> "gamerule set"
      [] op = "get_gamerule" -> "gamerule"
      [] OTHER -> op

\* What the server answers to a request.
Response(req) == <<"resp", req>>

\* What client.list() returns: the answer with the players online in it.
ListResponse(req, n) == <<"resp", req, n>>

\* A value an operation returns, and an exception it raises.
Ret(v) == <<"ret", v>>
Raise(e) == <<"raise", e>>

\* A call on the mcipc library: the method, its argument and how it ended
\* ("ok", or the way it raised).
Call(m, a, o) == <<m, a, o>>

\* ---------------------------------------------------------------- state
VARIABLES
    password,     \* RCONService.password
    client,       \* RCONService.client: None or the id of a Client object
    _connected,   \* RCONService._connected
    nextClient,   \* number of Client objects constructed so far
    sockOpen,     \* ids of the Client objects whose socket is open
    opCalls,      \* calls the last service operation made on the library
    lastRes,      \* what the last service operation returned or raised
    lastOp,       \* name of the last service operation
    lastArg,      \* its command text (or the empty string)
    prevOp,       \* the kind of the operation before the last one
    pre,          \* the state and result the last operation started from
    stack,        \* per thread: the frames of the calls it is executing
    ret,          \* per thread: the last call that returned, and its result
    wire,         \* requests written to the socket, not yet answered
    replies,      \* responses the server sent, not yet read
    rcon_service, \* MinecraftRCONGUI.rcon_service: None or the service object
    connected,    \* MinecraftRCONGUI.connected
    auto_refresh, \* MinecraftRCONGUI.auto_refresh
    stop_refresh, \* MinecraftRCONGUI.stop_refresh (threading.Event)
    afterQueue,   \* refresh_player_list callbacks scheduled with root.after
    console,      \* the lines log_to_console wrote
    destroyed,    \* root.destroy() was called
    submitted,    \* the commands the GUI handed to send_command, with results
    ctx,          \* the with block of the service its caller is inside
    runs,         \* two runs of the service that differ in the password
    codec,        \* the frame codec: a packet, a buffer, a decode result
    players,      \* the server: the number of players online
    players_label,   \* the count the label "Players Online: N/M" shows
    players_textbox, \* the number of names the player list shows
    dialog,       \* the ConnectionDialog made last: its window and its result
    server_password, \* MinecraftRCONGUI.server_password
    escaped       \* the handler an exception of the service left, if any

svcVars == <<password, client, _connected, nextClient, sockOpen>>
histVars == <<opCalls, lastRes, lastOp, lastArg, prevOp, pre>>
thrVars == <<stack, ret, wire, replies>>
guiVars == <<rcon_service, connected, auto_refresh, stop_refresh, afterQueue,
             console, destroyed, submitted>>
auxVars == <<ctx, runs, codec>>
shownVars == <<players_label, players_textbox>>
uiVars == <<players, dialog, server_password, escaped>>
vars == <<svcVars, histVars, thrVars, guiVars, auxVars, shownVars, uiVars>>

\* The GUI main loop thread, its auto-refresh thread, and two threads that
\* call the service directly.
Callers == {"t1", "t2"}
Threads == {"main", "refresh"} \cup Callers

\* The service and the sockets of the clients it made.
ServiceState ==
    [client |-> client, connected |-> _connected, nextClient |-> nextClient,
     sockOpen |-> sockOpen]

\* What an operation starts from: the state and the previous result.
Snapshot == [state |-> ServiceState, res |-> lastRes]

\* ------------------------------------------------------- RCONService code
\* __init__(server, port, password)
RCONService_init(pw) == [password |-> pw, client |-> None, connected |-> FALSE]

\* is_connected()
is_connected == _connected /\ client # None

\* _ensure_connected() passes (does not raise RuntimeError)
_ensure_connected_clientonly == client # None
_ensure_connected == ~(client = None \/ ~_connected)

\* Outcomes of client.connect() and client.login(password).
SocketOutcomes == {"ok", "refused"}
LoginOutcomes(pw) ==
    IF pw = ServerPassword THEN {"ok", "error"} ELSE {"rejected", "error"}

\* The value connect() leaves in _connected.
ConnectFlag_early(so, lo) == so = "ok"
ConnectFlag_kept(so, lo) == (so = "ok" /\ lo = "ok") \/ _connected
ConnectFlag(so, lo) == so = "ok" /\ lo = "ok"

\* connect(): lastRes' is the value returned or the exception raised.
connect ==
    /\ nextClient < MaxClients
    /\ \E so \in SocketOutcomes, lo \in LoginOutcomes(password) :
        LET c == nextClient + 1 IN
        /\ client' = c
        /\ nextClient' = c
        /\ sockOpen' = IF so = "ok" THEN sockOpen \cup {c} ELSE sockOpen
        /\ _connected' = ConnectFlag(so, lo)
        /\ opCalls' = IF so = "ok"
                      THEN <<Call("Client", "", "ok"), Call("connect", "", so),
                             Call("login", "", lo)>>
                      ELSE <<Call("Client", "", "ok"), Call("connect", "", so)>>
        /\ lastRes' = IF so = "ok" /\ lo = "ok" THEN Ret("True")
                                               ELSE Raise("ConnectionError")
    /\ UNCHANGED password

\* disconnect(): close the client if there is one and the flag is set.  A
\* close() that raises may or may not have released the socket.
CloseOutcomes == {"ok", "raise_open", "raise_closed"}
disconnect ==
    /\ lastRes' = Ret("None")
    /\ IF client # None /\ _connected
       THEN \E co \in CloseOutcomes :
            /\ opCalls' = <<Call("close", "", co)>>
            /\ sockOpen' = IF co = "raise_open" THEN sockOpen ELSE sockOpen \ {client}
            /\ _connected' = IF co = "ok" THEN FALSE ELSE _connected
       ELSE /\ opCalls' = <<>>
            /\ UNCHANGED <<sockOpen, _connected>>
    /\ UNCHANGED <<password, client, nextClient>>

\* One call on the client that sends a request: it returns the response or
\* raises (timeout, write failure, corrupt frame).
RunOutcomes == {"ok", "raise"}

\* _ensure_connected() raised.
NotConnected ==
    /\ lastRes' = Raise("RuntimeError")
    /\ opCalls' = <<>>
    /\ UNCHANGED svcVars

\* send_command(command)
send_command_firstword(command) ==
    IF _ensure_connected
    THEN \E o \in RunOutcomes :
         /\ opCalls' = <<Call("run", "time", o)>>
         /\ lastRes' = IF o = "ok" THEN Response("time") ELSE Raise("Exception")
         /\ UNCHANGED svcVars
    ELSE NotConnected
send_command_retry(command) ==
    IF _ensure_connected
    THEN \E o \in RunOutcomes :
         /\ opCalls' = IF o = "ok" THEN <<Call("run", command, o)>>
                       ELSE <<Call("run", command, o), Call("run", command, o)>>
         /\ lastRes' = IF o = "ok" THEN Response(command) ELSE Raise("Exception")
         /\ UNCHANGED svcVars
    ELSE NotConnected
send_command(command) ==
    IF _ensure_connected
    THEN \E o \in RunOutcomes :
         /\ opCalls' = <<Call("run", command, o)>>
         /\ lastRes' = IF o = "ok" THEN Response(command) ELSE Raise("Exception")
         /\ UNCHANGED svcVars
    ELSE NotConnected

\* A convenience that calls one method of the client directly.
direct_op(op) ==
    IF _ensure_connected
    THEN \E o \in RunOutcomes :
         /\ opCalls' = <<Call(ClientMethod(op), op, o)>>
         /\ lastRes' = IF o = "ok" THEN Response(op) ELSE Raise("Exception")
         /\ UNCHANGED svcVars
    ELSE NotConnected

\* A convenience that formats a command and delegates to send_command.
via_send_op(op) ==
    IF _ensure_connected
    THEN send_command(CommandText(op))
    ELSE NotConnected

\* ------------------------------------------------- the service, one caller
OpKind(op) ==
    IF op \in CommandOps THEN "command" ELSE op

Record(op, arg) ==
    /\ lastOp' = op
    /\ lastArg' = arg
    /\ prevOp' = OpKind(lastOp)
    /\ pre' = Snapshot

NoCall == [arg |-> "", val |-> Ret("None")]

\* The caller is in no with block; no pair of runs and no codec is in use.
AuxIdle ==
    /\ ctx = "none"
    /\ runs = <<>>
    /\ codec = <<>>

ThreadsInit ==
    /\ stack = [t \in Threads |-> <<>>]
    /\ ret = [t \in Threads |-> NoCall]
    /\ wire = <<>>
    /\ replies = <<>>

\* MinecraftRCONGUI.__init__
GuiFields ==
    /\ rcon_service = None
    /\ connected = FALSE
    /\ auto_refresh = TRUE
    /\ stop_refresh = FALSE
    /\ afterQueue = 0
    /\ console = <<>>
    /\ destroyed = FALSE
    /\ submitted = <<>>
    /\ players = 0
    /\ players_label = 0
    /\ players_textbox = 0
    /\ dialog = [window |-> "none", result |-> <<>>]
    /\ server_password = ""
    /\ escaped = "none"

Init ==
    /\ \E pw \in Passwords :
        /\ password = RCONService_init(pw).password
        /\ client = RCONService_init(pw).client
        /\ _connected = RCONService_init(pw).connected
    /\ ThreadsInit
    /\ GuiFields
    /\ AuxIdle
    /\ nextClient = 0
    /\ sockOpen = {}
    /\ opCalls = <<>>
    /\ lastRes = Ret("None")
    /\ lastOp = "init"
    /\ lastArg = ""
    /\ prevOp = "init"
    /\ pre = [state |-> [client |-> None, connected |-> FALSE, nextClient |-> 0,
                          sockOpen |-> {}],
              res |-> Ret("None")]

Connect == connect /\ Record("connect", "") /\ UNCHANGED <<thrVars, guiVars, auxVars, shownVars, uiVars>>

Disconnect == disconnect /\ Record("disconnect", "") /\ UNCHANGED <<thrVars, guiVars, auxVars, shownVars, uiVars>>

SendCommand ==
    \E c \in Commands :
        send_command(c) /\ Record("send_command", c) /\ UNCHANGED <<thrVars, guiVars, auxVars, shownVars, uiVars>>

DirectOp ==
    \E op \in DirectOps : direct_op(op) /\ Record(op, "") /\ UNCHANGED <<thrVars, guiVars, auxVars, shownVars, uiVars>>

ViaSendOp ==
    \E op \in ViaSendOps :
        via_send_op(op) /\ Record(op, CommandText(op)) /\ UNCHANGED <<thrVars, guiVars, auxVars, shownVars, uiVars>>

\* with service.connection(): the generator up to its yield.  It connects
\* only when the flag is not set; when connect() raises, the finally clause
\* is still to run.
EnterConnection ==
    /\ ctx = "none"
    /\ IF ~_connected
       THEN /\ connect
            /\ ctx' = IF lastRes' = Ret("True") THEN "connection" ELSE "unwinding"
       ELSE /\ opCalls' = <<>>
            /\ lastRes' = Ret("None")
            /\ ctx' = "connection"
            /\ UNCHANGED svcVars
    /\ Record("connection", "")
    /\ UNCHANGED <<thrVars, guiVars, runs, codec, shownVars, uiVars>>

\* with service: __enter__ calls connect(); when it raises the block is not
\* entered and __exit__ is not called.
EnterWith ==
    /\ ctx = "none"
    /\ connect
    /\ ctx' = IF lastRes' = Ret("True") THEN "with" ELSE "none"
    /\ Record("__enter__", "")
    /\ UNCHANGED <<thrVars, guiVars, runs, codec, shownVars, uiVars>>

\* The ways a with block is left.
Leavings == {"normally", "by exception"}

\* The block is left: the finally clause of connection(), or __exit__, calls
\* disconnect().
LeaveBlock ==
    /\ ctx # "none"
    /\ disconnect
    /\ ctx' = "none"
    /\ \E how \in (IF ctx = "unwinding" THEN {"connect failed"} ELSE Leavings) :
          Record(IF ctx = "with" THEN "__exit__" ELSE "finally", how)
    /\ UNCHANGED <<thrVars, guiVars, runs, codec, shownVars, uiVars>>

Next ==
    \/ Connect
    \/ Disconnect
    \/ SendCommand
    \/ DirectOp
    \/ ViaSendOp
    \/ EnterConnection
    \/ EnterWith
    \/ LeaveBlock

Spec == Init /\ [][Next]_vars

\* ------------------------------------------- the service, call by call
\* A frame is one call in progress: the function, where it is, its argument.
Frame(fn, pc, arg) == [fn |-> fn, pc |-> pc, arg |-> arg]
Top(t) == stack[t][Len(stack[t])]
Push(t, f) == stack' = [stack EXCEPT ![t] = Append(@, f)]
Goto(t, pc) == stack' = [stack EXCEPT ![t][Len(stack[t])].pc = pc]
Pop(t) == stack' = [stack EXCEPT ![t] = SubSeq(@, 1, Len(@) - 1)]
At(t, fn, pc) == stack[t] # <<>> /\ Top(t).fn = fn /\ Top(t).pc = pc

\* The frames of calls into the service: send_command(command), and a
\* convenience that calls one client method.
ServiceFns == {"send_command", "direct_op"}
InService(t, pc) == stack[t] # <<>> /\ Top(t).fn \in ServiceFns /\ Top(t).pc = pc

\* The call on top of thread t returns (or raises) val.
Return(t, val) ==
    /\ Pop(t)
    /\ ret' = [ret EXCEPT ![t] = [arg |-> Top(t).arg, val |-> val]]

\* self._ensure_connected() at the head of a command operation
S_Ensure(t) ==
    /\ InService(t, "ensure")
    /\ IF _ensure_connected
       THEN Goto(t, "write") /\ UNCHANGED ret
       ELSE Return(t, Raise("RuntimeError"))
    /\ UNCHANGED <<auxVars, shownVars, uiVars, svcVars, histVars, wire, replies, guiVars>>

\* The call on the client (client.run(command) in send_command) writes the
\* request, or raises.
S_Write(t) ==
    /\ InService(t, "write")
    /\ \E o \in RunOutcomes :
        IF o = "ok"
        THEN /\ wire' = Append(wire, [from |-> t, req |-> Top(t).arg])
             /\ Goto(t, "read")
             /\ UNCHANGED ret
        ELSE /\ Return(t, Raise("Exception"))
             /\ UNCHANGED wire
    /\ UNCHANGED <<auxVars, shownVars, uiVars, svcVars, histVars, replies, guiVars>>

\* The call on the client reads the next response from the socket; a
\* response to another request is returned as it is or rejected by the
\* library, an error is re-raised.
S_Read(t) ==
    /\ InService(t, "read")
    /\ replies # <<>>
    /\ LET r == Head(replies) IN
       /\ replies' = Tail(replies)
       /\ \/ Return(t, r.body)
          \/ r.to # t /\ Return(t, Raise("Exception"))
    /\ UNCHANGED <<auxVars, shownVars, uiVars, svcVars, histVars, wire, guiVars>>

\* The server answers the oldest request, after any delay, or the
\* connection fails and the reader gets an error.
ServerReply ==
    /\ wire # <<>>
    /\ \E o \in RunOutcomes :
        replies' = Append(replies,
            [to |-> Head(wire).from,
             body |-> IF o # "ok" THEN Raise("Exception")
                      ELSE IF ClientMethod(Head(wire).req) = "list"
                           THEN ListResponse(Head(wire).req, players)
                           ELSE Response(Head(wire).req)])
    /\ wire' = Tail(wire)
    /\ UNCHANGED <<auxVars, shownVars, uiVars, svcVars, histVars, stack, ret, guiVars>>

\* --------------------------------------- the service, two calling threads
\* A thread calls send_command(c) on the shared service.
ThreadCall(t) ==
    /\ stack[t] = <<>>
    /\ \E c \in Commands : Push(t, Frame("send_command", "ensure", c))
    /\ UNCHANGED <<auxVars, shownVars, uiVars, svcVars, histVars, ret, wire, replies, guiVars>>

\* connect() and disconnect() are called while no command is in progress.
Quiet == \A t \in Threads : stack[t] = <<>>

ThreadsNext ==
    \/ Quiet /\ Connect
    \/ Quiet /\ Disconnect
    \/ \E t \in Callers : ThreadCall(t)
    \/ \E t \in Callers : S_Ensure(t)
    \/ \E t \in Callers : S_Write(t)
    \/ \E t \in Callers : S_Read(t)
    \/ ServerReply

SpecThreads == Init /\ [][ThreadsNext]_vars

\* ------------------------------------------------------ MinecraftRCONGUI
\* log_to_console(message): one console line, a kind and a text.
Line(kind, text) == <<kind, text>>
Log(lines) == console' = console \o lines
Room(n) == Len(console) + n <= MaxConsole

\* The main thread is in an event loop: mainloop itself, or the loop of a
\* modal message box opened by the handler on top.
MainIdle == stack["main"] = <<>> /\ ~destroyed
InMsgBox == stack["main"] # <<>> /\ Top("main").pc = "msgbox"

\* A handler calls another function: it moves to pc and the callee starts.
CallFrom(t, pc, f) ==
    stack' = [stack EXCEPT ![t] = Append([@ EXCEPT ![Len(@)].pc = pc], f)]

\* disconnect_server()
disconnect_server ==
    /\ IF rcon_service # None
       THEN disconnect
       ELSE UNCHANGED <<svcVars, opCalls, lastRes>>
    /\ connected' = FALSE
    /\ rcon_service' = None
    /\ players_label' = 0
    /\ players_textbox' = 0
    /\ Log(<<Line("info", "Disconnected from server")>>)

\* File > Disconnect
G_Disconnect ==
    /\ MainIdle
    /\ Room(1)
    /\ disconnect_server
    /\ UNCHANGED <<auxVars, uiVars, lastOp, lastArg, prevOp, pre, thrVars, auto_refresh,
                   stop_refresh, afterQueue, destroyed, submitted>>

\* connect_to_server() is entered with the connection details to use.
G_ConnectEvent ==
    /\ MainIdle
    /\ Room(2)
    /\ nextClient < MaxClients
    /\ \E pw \in Passwords : Push("main", Frame("connect_to_server", "start", pw))
    /\ UNCHANGED <<auxVars, shownVars, uiVars, svcVars, histVars, ret, wire, replies, guiVars>>

\* connect_to_server, lines 236-237
G_ConnectStart(t) ==
    /\ At(t, "connect_to_server", "start")
    /\ IF connected
       THEN disconnect_server
       ELSE UNCHANGED <<svcVars, opCalls, lastRes, connected, rcon_service, console,
                        shownVars>>
    /\ Goto(t, "construct")
    /\ UNCHANGED <<auxVars, uiVars, lastOp, lastArg, prevOp, pre, ret, wire, replies, auto_refresh,
                   stop_refresh, afterQueue, destroyed, submitted>>

\* connect_to_server, line 240: a new RCONService, on a new connection
G_ConnectConstruct(t) ==
    /\ At(t, "connect_to_server", "construct")
    /\ password' = RCONService_init(Top(t).arg).password
    /\ client' = RCONService_init(Top(t).arg).client
    /\ _connected' = RCONService_init(Top(t).arg).connected
    /\ rcon_service' = 1
    /\ wire' = <<>>
    /\ replies' = <<>>
    /\ Goto(t, "connect")
    /\ UNCHANGED <<auxVars, shownVars, uiVars, nextClient, sockOpen, histVars, ret, connected, auto_refresh,
                   stop_refresh, afterQueue, console, destroyed, submitted>>

\* connect_to_server, lines 241-256: connect(), then the first refresh, or
\* the error box
G_ConnectCall(t) ==
    /\ At(t, "connect_to_server", "connect")
    /\ connect
    /\ IF lastRes' = Ret("True")
       THEN /\ connected' = TRUE
            /\ Log(<<Line("info", "Connected")>>)
            /\ CallFrom(t, "done", Frame("refresh_player_list", "start", ""))
       ELSE /\ Log(<<Line("info", "Failed to connect")>>)
            /\ Goto(t, "msgbox")
            /\ UNCHANGED connected
    /\ UNCHANGED <<auxVars, shownVars, uiVars, lastOp, lastArg, prevOp, pre, ret, wire, replies, rcon_service,
                   auto_refresh, stop_refresh, afterQueue, destroyed, submitted>>

\* A handler returns.
G_Done(t) ==
    /\ stack[t] # <<>>
    /\ Top(t).pc = "done"
    /\ Pop(t)
    /\ UNCHANGED <<auxVars, shownVars, uiVars, svcVars, histVars, ret, wire, replies, guiVars>>

\* The operator closes the message box on top.
G_MsgBoxOk ==
    /\ InMsgBox
    /\ Pop("main")
    /\ UNCHANGED <<auxVars, shownVars, uiVars, svcVars, histVars, ret, wire, replies, guiVars>>

\* A quick-command button or menu entry
G_QuickEvent ==
    /\ MainIdle
    /\ Room(2)
    /\ \E c \in Commands : Push("main", Frame("execute_quick_command", "start", c))
    /\ UNCHANGED <<auxVars, shownVars, uiVars, svcVars, histVars, ret, wire, replies, guiVars>>

\* execute_quick_command, lines 299-304
G_QuickStart(t) ==
    /\ At(t, "execute_quick_command", "start")
    /\ IF ~connected
       THEN Goto(t, "msgbox") /\ UNCHANGED submitted
       ELSE /\ CallFrom(t, "ret", Frame("send_command", "ensure", Top(t).arg))
            /\ submitted' = Append(submitted, [cmd |-> Top(t).arg, res |-> Ret("None")])
    /\ UNCHANGED <<auxVars, shownVars, uiVars, svcVars, histVars, ret, wire, replies, rcon_service, connected,
                   auto_refresh, stop_refresh, afterQueue, console, destroyed>>

\* execute_quick_command, lines 305-308: the two console lines of a command
\* that returned
QuickLog_swapped(command, response) ==
    <<Line("<", response[2]), Line(">", command)>>
QuickLog(command, response) ==
    <<Line(">", command), Line("<", response[2])>>

G_QuickRet(t) ==
    /\ At(t, "execute_quick_command", "ret")
    /\ IF ret[t].val[1] = "raise"
       THEN Log(<<Line("info", "Command failed")>>)
       ELSE Log(QuickLog(Top(t).arg, ret[t].val))
    /\ submitted' = [submitted EXCEPT ![Len(submitted)].res = ret[t].val]
    /\ Pop(t)
    /\ UNCHANGED <<auxVars, shownVars, uiVars, svcVars, histVars, ret, wire, replies, rcon_service, connected,
                   auto_refresh, stop_refresh, afterQueue, destroyed>>

\* refresh_player_list, lines 367-371
G_RefreshStart_unchecked(t) ==
    /\ At(t, "refresh_player_list", "start")
    /\ CallFrom(t, "got_list", Frame("direct_op", "ensure", "get_player_list"))
    /\ UNCHANGED <<auxVars, shownVars, uiVars, svcVars, histVars, ret, wire, replies, guiVars>>
G_RefreshStart(t) ==
    /\ At(t, "refresh_player_list", "start")
    /\ IF ~connected \/ rcon_service = None
       THEN Pop(t)
       ELSE CallFrom(t, "got_list", Frame("direct_op", "ensure", "get_player_list"))
    /\ UNCHANGED <<auxVars, shownVars, uiVars, svcVars, histVars, ret, wire, replies, guiVars>>

\* refresh_player_list, line 372
G_RefreshGotList(t) ==
    /\ At(t, "refresh_player_list", "got_list")
    /\ IF ret[t].val[1] = "raise"
       THEN Pop(t)
       ELSE stack' = [stack EXCEPT ![t] =
                Append([@ EXCEPT ![Len(@)].pc = "got_count",
                                 ![Len(@)].arg = ret[t].val[3]],
                       Frame("direct_op", "ensure", "get_player_count"))]
    /\ UNCHANGED <<auxVars, shownVars, uiVars, svcVars, histVars, ret, wire, replies, guiVars>>

\* refresh_player_list, lines 374-386
G_RefreshGotCount(t) ==
    /\ At(t, "refresh_player_list", "got_count")
    /\ IF ret[t].val[1] = "raise"
       THEN UNCHANGED shownVars
       ELSE /\ players_label' = ret[t].val[3]
            /\ players_textbox' = Top(t).arg
    /\ Pop(t)
    /\ UNCHANGED <<auxVars, uiVars, svcVars, histVars, ret, wire, replies, guiVars>>

\* The event loop runs a callback scheduled with root.after.
G_AfterDispatch ==
    /\ MainIdle \/ (InMsgBox /\ ~destroyed)
    /\ afterQueue > 0
    /\ afterQueue' = afterQueue - 1
    /\ Push("main", Frame("refresh_player_list", "start", ""))
    /\ UNCHANGED <<auxVars, shownVars, uiVars, svcVars, histVars, ret, wire, replies, rcon_service, connected,
                   auto_refresh, stop_refresh, console, destroyed, submitted>>

\* toggle_auto_refresh(): the check box was clicked
G_Toggle ==
    /\ MainIdle
    /\ auto_refresh' = ~auto_refresh
    /\ UNCHANGED <<auxVars, shownVars, uiVars, svcVars, histVars, thrVars, rcon_service, connected,
                   stop_refresh, afterQueue, console, destroyed, submitted>>

\* on_closing(): the window is closed
G_Closing ==
    /\ MainIdle
    /\ Room(1)
    /\ stop_refresh' = TRUE
    /\ IF connected
       THEN disconnect_server
       ELSE UNCHANGED <<svcVars, opCalls, lastRes, connected, rcon_service, console,
                        shownVars>>
    /\ destroyed' = TRUE
    /\ afterQueue' = 0
    /\ UNCHANGED <<auxVars, uiVars, lastOp, lastArg, prevOp, pre, thrVars, auto_refresh, submitted>>

\* File > Exit: root.quit() ends mainloop, run() returns and the program
\* ends; on_closing is not called.
G_Exit ==
    /\ MainIdle
    /\ Push("main", Frame("run", "exited", ""))
    /\ UNCHANGED <<auxVars, shownVars, uiVars, svcVars, histVars, ret, wire, replies,
                   guiVars>>

\* mainloop has returned: the window was destroyed or root.quit() called.
Terminated == destroyed \/ At("main", "run", "exited")

\* _auto_refresh_loop, line 403
R_While_unlessauto(t) ==
    /\ At(t, "_auto_refresh_loop", "while")
    /\ IF stop_refresh /\ ~auto_refresh THEN Pop(t) ELSE Goto(t, "if_auto")
    /\ UNCHANGED <<auxVars, shownVars, uiVars, svcVars, histVars, ret, wire, replies, guiVars>>
R_While(t) ==
    /\ At(t, "_auto_refresh_loop", "while")
    /\ IF stop_refresh THEN Pop(t) ELSE Goto(t, "if_auto")
    /\ UNCHANGED <<auxVars, shownVars, uiVars, svcVars, histVars, ret, wire, replies, guiVars>>

\* _auto_refresh_loop, line 404: self.auto_refresh
R_IfAuto(t) ==
    /\ At(t, "_auto_refresh_loop", "if_auto")
    /\ IF auto_refresh THEN Goto(t, "if_connected") ELSE Goto(t, "sleep")
    /\ UNCHANGED <<auxVars, shownVars, uiVars, svcVars, histVars, ret, wire, replies, guiVars>>

\* _auto_refresh_loop, line 404: self.connected
R_IfConnected(t) ==
    /\ At(t, "_auto_refresh_loop", "if_connected")
    /\ IF connected THEN Goto(t, "after") ELSE Goto(t, "sleep")
    /\ UNCHANGED <<auxVars, shownVars, uiVars, svcVars, histVars, ret, wire, replies, guiVars>>

\* _auto_refresh_loop, lines 405-408: root.after(0, self.refresh_player_list)
\* queues the callback for the main loop; on a destroyed window it raises,
\* and the exception is swallowed.
schedule_refresh_direct(t) ==
    /\ CallFrom(t, "sleep", Frame("refresh_player_list", "start", ""))
    /\ UNCHANGED afterQueue
schedule_refresh(t) ==
    /\ IF destroyed
       THEN UNCHANGED afterQueue
       ELSE afterQueue < MaxAfter /\ afterQueue' = afterQueue + 1
    /\ Goto(t, "sleep")

R_After(t) ==
    /\ At(t, "_auto_refresh_loop", "after")
    /\ schedule_refresh(t)
    /\ UNCHANGED <<auxVars, shownVars, uiVars, svcVars, histVars, ret, wire, replies, rcon_service, connected,
                   auto_refresh, stop_refresh, console, destroyed, submitted>>

\* _auto_refresh_loop, line 409
R_Sleep(t) ==
    /\ At(t, "_auto_refresh_loop", "sleep")
    /\ Goto(t, "while")
    /\ UNCHANGED <<auxVars, shownVars, uiVars, svcVars, histVars, ret, wire, replies, guiVars>>

\* The GUI after __init__: no service, the auto-refresh thread started.
GuiInit ==
    /\ password = "bad"
    /\ client = None
    /\ _connected = FALSE
    /\ nextClient = 0
    /\ sockOpen = {}
    /\ opCalls = <<>>
    /\ lastRes = Ret("None")
    /\ lastOp = "init"
    /\ lastArg = ""
    /\ prevOp = "init"
    /\ pre = [state |-> [client |-> None, connected |-> FALSE, nextClient |-> 0,
                          sockOpen |-> {}],
              res |-> Ret("None")]
    /\ stack = [t \in Threads |->
                  IF t = "refresh" THEN <<Frame("_auto_refresh_loop", "while", "")>>
                                   ELSE <<>>]
    /\ ret = [t \in Threads |-> NoCall]
    /\ wire = <<>>
    /\ replies = <<>>
    /\ GuiFields
    /\ AuxIdle

GuiThreads == {"main", "refresh"}

GuiNext ==
    \/ G_ConnectEvent
    \/ G_Disconnect
    \/ G_QuickEvent
    \/ G_Toggle
    \/ G_Closing
    \/ G_Exit
    \/ G_MsgBoxOk
    \/ G_AfterDispatch
    \/ ServerReply
    \/ \E t \in GuiThreads : G_ConnectStart(t)
    \/ \E t \in GuiThreads : G_ConnectConstruct(t)
    \/ \E t \in GuiThreads : G_ConnectCall(t)
    \/ \E t \in GuiThreads : G_Done(t)
    \/ \E t \in GuiThreads : G_QuickStart(t)
    \/ \E t \in GuiThreads : G_QuickRet(t)
    \/ \E t \in GuiThreads : G_RefreshStart(t)
    \/ \E t \in GuiThreads : G_RefreshGotList(t)
    \/ \E t \in GuiThreads : G_RefreshGotCount(t)
    \/ \E t \in GuiThreads : S_Ensure(t)
    \/ \E t \in GuiThreads : S_Write(t)
    \/ \E t \in GuiThreads : S_Read(t)
    \/ \E t \in GuiThreads : R_While(t)
    \/ \E t \in GuiThreads : R_IfAuto(t)
    \/ \E t \in GuiThreads : R_IfConnected(t)
    \/ \E t \in GuiThreads : R_After(t)
    \/ \E t \in GuiThreads : R_Sleep(t)

SpecGUI == GuiInit /\ [][GuiNext]_vars

\* The handlers that read or write what the refresh thread depends on
\* (stop_refresh, auto_refresh, connected, the after queue, the window):
\* GuiNext without the quick-command buttons, which touch none of these
\* (execute_quick_command, lines 299-308, only sends and logs).
LiveNext ==
    \/ G_ConnectEvent
    \/ G_Disconnect
    \/ G_Toggle
    \/ G_Closing
    \/ G_Exit
    \/ G_MsgBoxOk
    \/ G_AfterDispatch
    \/ ServerReply
    \/ \E t \in GuiThreads : G_ConnectStart(t)
    \/ \E t \in GuiThreads : G_ConnectConstruct(t)
    \/ \E t \in GuiThreads : G_ConnectCall(t)
    \/ \E t \in GuiThreads : G_Done(t)
    \/ \E t \in GuiThreads : G_RefreshStart(t)
    \/ \E t \in GuiThreads : G_RefreshGotList(t)
    \/ \E t \in GuiThreads : G_RefreshGotCount(t)
    \/ \E t \in GuiThreads : S_Ensure(t)
    \/ \E t \in GuiThreads : S_Write(t)
    \/ \E t \in GuiThreads : S_Read(t)
    \/ \E t \in GuiThreads : R_While(t)
    \/ \E t \in GuiThreads : R_IfAuto(t)
    \/ \E t \in GuiThreads : R_IfConnected(t)
    \/ \E t \in GuiThreads : R_After(t)
    \/ \E t \in GuiThreads : R_Sleep(t)

\* The auto-refresh thread is a thread of the operating system: as long as
\* it can take its next step it eventually takes it.
RefreshStep ==
    \/ R_While("refresh")
    \/ R_IfAuto("refresh")
    \/ R_IfConnected("refresh")
    \/ R_After("refresh")
    \/ R_Sleep("refresh")

SpecGUILive == GuiInit /\ [][LiveNext]_vars /\ WF_vars(RefreshStep)

\* ------------------------------------ the dialogs, buttons and the server
\* The main window takes the operator's input: no handler is running and
\* no dialog holds the grab (grab_set).
UserIdle == MainIdle /\ dialog.window # "open"

\* A player joins or leaves the server.
PlayerJoin ==
    /\ players < MaxPlayers
    /\ players' = players + 1
    /\ UNCHANGED <<svcVars, histVars, thrVars, guiVars, auxVars, shownVars,
                   dialog, server_password, escaped>>

PlayerLeave ==
    /\ players > 0
    /\ players' = players - 1
    /\ UNCHANGED <<svcVars, histVars, thrVars, guiVars, auxVars, shownVars,
                   dialog, server_password, escaped>>

\* File > Connect: show_connection_dialog, line 229.  The constructor of
\* ConnectionDialog builds the window and returns; its result is None.
G_ShowDialog ==
    /\ UserIdle
    /\ dialog' = [window |-> "open", result |-> <<>>]
    /\ Push("main", Frame("show_connection_dialog", "if_result", ""))
    /\ UNCHANGED <<svcVars, histVars, ret, wire, replies, guiVars, auxVars,
                   shownVars, players, server_password, escaped>>

\* show_connection_dialog, lines 230-232
G_ShowDialogIf(t) ==
    /\ At(t, "show_connection_dialog", "if_result")
    /\ IF dialog.result # <<>>
       THEN /\ server_password' = dialog.result[1]
            /\ stack' = [stack EXCEPT ![t][Len(stack[t])] =
                            Frame("connect_to_server", "start", dialog.result[1])]
       ELSE /\ Pop(t)
            /\ UNCHANGED server_password
    /\ UNCHANGED <<svcVars, histVars, ret, wire, replies, guiVars, auxVars,
                   shownVars, players, dialog, escaped>>

\* ConnectionDialog.connect: the operator confirms.  With a host and a
\* port that is a number the result is set and the window destroyed;
\* otherwise an error box is shown and the dialog stays.
D_Connect ==
    /\ MainIdle
    /\ dialog.window = "open"
    /\ \E pw \in Passwords, valid \in BOOLEAN :
        IF valid
        THEN /\ dialog' = [window |-> "destroyed", result |-> <<pw>>]
             /\ UNCHANGED stack
        ELSE /\ Push("main", Frame("ConnectionDialog.connect", "msgbox", ""))
             /\ UNCHANGED dialog
    /\ UNCHANGED <<svcVars, histVars, ret, wire, replies, guiVars, auxVars,
                   shownVars, players, server_password, escaped>>

\* ConnectionDialog.cancel
D_Cancel ==
    /\ MainIdle
    /\ dialog.window = "open"
    /\ dialog' = [window |-> "destroyed", result |-> <<>>]
    /\ UNCHANGED <<svcVars, histVars, thrVars, guiVars, auxVars, shownVars,
                   players, server_password, escaped>>

\* Kick Player, Ban Player, Message Player
PlayerDialogs == {"kick_player_dialog", "ban_player_dialog", "message_player_dialog"}

G_PlayerDialogEvent ==
    /\ UserIdle
    /\ \E h \in PlayerDialogs : Push("main", Frame(h, "start", ""))
    /\ UNCHANGED <<svcVars, histVars, ret, wire, replies, guiVars, auxVars,
                   shownVars, uiVars>>

\* kick_player_dialog, lines 413-417 (ban 435-439, message 457-461)
G_PlayerDialogStart(t) ==
    /\ stack[t] # <<>>
    /\ Top(t).fn \in PlayerDialogs
    /\ Top(t).pc = "start"
    /\ IF ~connected
       THEN Goto(t, "msgbox")
       ELSE CallFrom(t, "got_list", Frame("direct_op", "ensure", "get_player_list"))
    /\ UNCHANGED <<svcVars, histVars, ret, wire, replies, guiVars, auxVars,
                   shownVars, uiVars>>

\* kick_player_dialog, lines 417-423: get_player_list() is called outside
\* the try statement, so what it raises leaves the handler.  With players
\* online the PlayerActionDialog is built, its result is None and the
\* handler returns.
G_PlayerDialogGotList(t) ==
    /\ stack[t] # <<>>
    /\ Top(t).fn \in PlayerDialogs
    /\ Top(t).pc = "got_list"
    /\ IF ret[t].val[1] = "raise"
       THEN escaped' = Top(t).fn /\ Pop(t)
       ELSE /\ UNCHANGED escaped
            /\ IF ret[t].val[3] = 0 THEN Goto(t, "msgbox") ELSE Pop(t)
    /\ UNCHANGED <<svcVars, histVars, ret, wire, replies, guiVars, auxVars,
                   shownVars, players, dialog, server_password>>

\* Save All, Reload and Get Seed: the call of the service each makes.
Buttons == {"save_all", "reload_server", "get_seed"}
ButtonCall(h) ==
    IF h \in ViaSendOps THEN Frame("send_command", "ensure", CommandText(h))
                        ELSE Frame("direct_op", "ensure", h)

G_ButtonEvent ==
    /\ UserIdle
    /\ Room(2)
    /\ \E h \in Buttons : Push("main", Frame(h, "start", ""))
    /\ UNCHANGED <<svcVars, histVars, ret, wire, replies, guiVars, auxVars,
                   shownVars, uiVars>>

\* save_all, lines 312-316 (reload_server 325-329, get_seed 338-342)
G_ButtonStart(t) ==
    /\ stack[t] # <<>>
    /\ Top(t).fn \in Buttons
    /\ Top(t).pc = "start"
    /\ IF ~connected
       THEN Goto(t, "msgbox")
       ELSE CallFrom(t, "ret", ButtonCall(Top(t).fn))
    /\ UNCHANGED <<svcVars, histVars, ret, wire, replies, guiVars, auxVars,
                   shownVars, uiVars>>

\* save_all, lines 317-321 (reload_server 330-334, get_seed 343-347)
G_ButtonRet(t) ==
    /\ stack[t] # <<>>
    /\ Top(t).fn \in Buttons
    /\ Top(t).pc = "ret"
    /\ IF ret[t].val[1] = "raise"
       THEN Log(<<Line("info", "failed")>>)
       ELSE Log(<<Line(">", Top(t).fn), Line("<", ret[t].val[2])>>)
    /\ Pop(t)
    /\ UNCHANGED <<svcVars, histVars, ret, wire, replies, rcon_service, connected,
                   auto_refresh, stop_refresh, afterQueue, destroyed, submitted,
                   auxVars, shownVars, uiVars>>

\* Stop Server: stop_server_confirm, lines 351-355.  askyesno is a modal
\* box the operator answers.
G_StopEvent ==
    /\ UserIdle
    /\ Room(3)
    /\ Push("main", Frame("stop_server_confirm", "start", ""))
    /\ UNCHANGED <<svcVars, histVars, ret, wire, replies, guiVars, auxVars,
                   shownVars, uiVars>>

G_StopStart(t) ==
    /\ At(t, "stop_server_confirm", "start")
    /\ IF ~connected THEN Goto(t, "msgbox") ELSE Goto(t, "askyesno")
    /\ UNCHANGED <<svcVars, histVars, ret, wire, replies, guiVars, auxVars,
                   shownVars, uiVars>>

\* stop_server_confirm, lines 355-357: yes calls stop_server(), no returns
G_StopAnswer(t) ==
    /\ At(t, "stop_server_confirm", "askyesno")
    /\ \E yes \in BOOLEAN :
        IF yes THEN CallFrom(t, "ret", Frame("direct_op", "ensure", "stop_server"))
               ELSE Pop(t)
    /\ UNCHANGED <<svcVars, histVars, ret, wire, replies, guiVars, auxVars,
                   shownVars, uiVars>>

\* stop_server_confirm, lines 357-363: the two console lines and then
\* disconnect_server(), or the except branch, which only logs
G_StopRet(t) ==
    /\ At(t, "stop_server_confirm", "ret")
    /\ IF ret[t].val[1] = "raise"
       THEN Log(<<Line("info", "Stop command failed")>>) /\ Pop(t)
       ELSE Log(<<Line(">", "stop"), Line("<", ret[t].val[2])>>)
            /\ Goto(t, "disconnect")
    /\ UNCHANGED <<svcVars, histVars, ret, wire, replies, rcon_service, connected,
                   auto_refresh, stop_refresh, afterQueue, destroyed, submitted,
                   auxVars, shownVars, uiVars>>

\* stop_server_confirm, line 361
G_StopDisconnect(t) ==
    /\ At(t, "stop_server_confirm", "disconnect")
    /\ disconnect_server
    /\ Pop(t)
    /\ UNCHANGED <<auxVars, uiVars, lastOp, lastArg, prevOp, pre, ret, wire, replies,
                   auto_refresh, stop_refresh, afterQueue, destroyed, submitted>>

\* The main window with its dialogs and buttons, and the server's players.
PanelNext ==
    \/ UserIdle /\ G_ConnectEvent
    \/ UserIdle /\ G_Disconnect
    \/ G_MsgBoxOk
    \/ G_ShowDialog
    \/ D_Connect
    \/ D_Cancel
    \/ G_PlayerDialogEvent
    \/ G_ButtonEvent
    \/ G_StopEvent
    \/ PlayerJoin
    \/ PlayerLeave
    \/ ServerReply
    \/ G_ShowDialogIf("main")
    \/ G_ConnectStart("main")
    \/ G_ConnectConstruct("main")
    \/ G_ConnectCall("main")
    \/ G_Done("main")
    \/ G_RefreshStart("main")
    \/ G_RefreshGotList("main")
    \/ G_RefreshGotCount("main")
    \/ G_PlayerDialogStart("main")
    \/ G_PlayerDialogGotList("main")
    \/ G_ButtonStart("main")
    \/ G_ButtonRet("main")
    \/ G_StopStart("main")
    \/ G_StopAnswer("main")
    \/ G_StopRet("main")
    \/ G_StopDisconnect("main")
    \/ S_Ensure("main")
    \/ S_Write("main")
    \/ S_Read("main")

SpecPanel == GuiInit /\ [][PanelNext]_vars

\* ------------------------------------- log records, two runs side by side
\* A log record or console line: where it goes, its fixed text, and the
\* values formatted into it.
Msg(to, text, a, b) == <<to, text, a, b>>

\* self.server and self.port as the messages show them.
Address == "127.0.0.1:25575"

\* str(e) of the exception a call on the client raised.
ExcText(o) ==
    CASE o = "refused" -> "connection refused"
      [] o = "rejected" -> "wrong password"
      [] o = "error" -> "timed out"
      [] OTHER -> "error"

\* The records connect() writes, and the console line of connect_to_server
\* that follows them; pw is self.password.
connect_log_password(pw, so, lo) ==
    IF so = "ok" /\ lo = "ok"
    THEN <<Msg("logger.info", "Successfully connected to", Address, ""),
           Msg("console", "Connected to", Address, "")>>
    ELSE <<Msg("logger.error", "Failed to connect to", Address, pw),
           Msg("console", "Failed to connect: Failed to connect to RCON server:",
               pw, "")>>
connect_log(pw, so, lo) ==
    LET e == ExcText(IF so = "ok" THEN lo ELSE so) IN
    IF so = "ok" /\ lo = "ok"
    THEN <<Msg("logger.info", "Successfully connected to", Address, ""),
           Msg("console", "Connected to", Address, "")>>
    ELSE <<Msg("logger.error", "Failed to connect to", Address, e),
           Msg("console", "Failed to connect: Failed to connect to RCON server:",
               e, "")>>

\* The record disconnect() writes when it calls close().
disconnect_log(co) ==
    IF co = "ok"
    THEN <<Msg("logger.info", "Disconnected from RCON server", "", "")>>
    ELSE <<Msg("logger.error", "Error during disconnect:", ExcText(co), "")>>

\* The record send_command writes after _ensure_connected() passed.
send_command_log(command, o) ==
    IF o = "ok"
    THEN <<Msg("logger.debug", "Command: | Response:", command, Response(command)[2])>>
    ELSE <<Msg("logger.error", "Command execution failed:", ExcText(o), "")>>

\* The passwords of the two runs.
PairPasswords == Passwords \cup {"worse"}
Runs == {1, 2}

\* How login ends in a run: a transport fault, or the server's verdict on
\* the password of that run.
LoginOutcome(pw, fault) ==
    IF fault THEN "error" ELSE IF pw = ServerPassword THEN "ok" ELSE "rejected"

\* Two services built with the same server and port and different
\* passwords; nothing logged yet.
PairInit ==
    /\ password = "bad"
    /\ client = None
    /\ _connected = FALSE
    /\ nextClient = 0
    /\ sockOpen = {}
    /\ opCalls = <<>>
    /\ lastRes = Ret("None")
    /\ lastOp = "init"
    /\ lastArg = ""
    /\ prevOp = "init"
    /\ pre = [state |-> [client |-> None, connected |-> FALSE, nextClient |-> 0,
                          sockOpen |-> {}],
              res |-> Ret("None")]
    /\ ThreadsInit
    /\ GuiFields
    /\ ctx = "none"
    /\ codec = <<>>
    /\ \E p1 \in PairPasswords : \E p2 \in PairPasswords \ {p1} :
          runs = [password |-> <<p1, p2>>,
                  client |-> <<FALSE, FALSE>>,
                  connected |-> <<FALSE, FALSE>>,
                  log |-> <<<<>>, <<>>>>,
                  sameLogins |-> TRUE]

PairRoom(n) == \A i \in Runs : Len(runs.log[i]) + n <= MaxLog

\* Both runs call connect() (from connect_to_server) and meet the same
\* server and the same transport.
P_Connect ==
    /\ PairRoom(2)
    /\ \E so \in SocketOutcomes, fault \in BOOLEAN :
        LET lo == [i \in Runs |-> LoginOutcome(runs.password[i], fault)] IN
        runs' = [runs EXCEPT
            !.client = <<TRUE, TRUE>>,
            !.connected = [i \in Runs |-> ConnectFlag(so, lo[i])],
            !.log = [i \in Runs |-> @[i] \o connect_log(runs.password[i], so, lo[i])],
            !.sameLogins = @ /\ (so # "ok" \/ lo[1] = lo[2])]
    /\ UNCHANGED <<svcVars, histVars, thrVars, guiVars, ctx, codec, shownVars, uiVars>>

\* Both runs call disconnect().
P_Disconnect ==
    /\ PairRoom(1)
    /\ \E co \in CloseOutcomes :
        LET closing == [i \in Runs |-> runs.client[i] /\ runs.connected[i]] IN
        runs' = [runs EXCEPT
            !.connected = [i \in Runs |-> IF closing[i] /\ co = "ok" THEN FALSE ELSE @[i]],
            !.log = [i \in Runs |-> IF closing[i] THEN @[i] \o disconnect_log(co) ELSE @[i]]]
    /\ UNCHANGED <<svcVars, histVars, thrVars, guiVars, ctx, codec, shownVars, uiVars>>

\* Both runs call send_command(c).
P_Command ==
    /\ PairRoom(1)
    /\ \E c \in Commands, o \in RunOutcomes :
        LET ensured == [i \in Runs |-> runs.client[i] /\ runs.connected[i]] IN
        runs' = [runs EXCEPT
            !.log = [i \in Runs |-> IF ensured[i] THEN @[i] \o send_command_log(c, o)
                                                 ELSE @[i]]]
    /\ UNCHANGED <<svcVars, histVars, thrVars, guiVars, ctx, codec, shownVars, uiVars>>

PairNext == P_Connect \/ P_Disconnect \/ P_Command

SpecPair == PairInit /\ [][PairNext]_vars

\* ------------------------------------------------------- the frame codec
\* The repository holds no codec (the mcipc library frames the packets);
\* encode and tryDecode follow the description of the Frame Codec.
MaxInt32 == 2147483647
MinInt32 == 0 - MaxInt32 - 1

\* The four bytes of a number in 0..MaxInt32, least significant first, and
\* the number of four such bytes.
BytesOf(u) ==
    <<u % 256, (u \div 256) % 256, (u \div 65536) % 256, (u \div 16777216) % 256>>
NumberOf(b) == b[1] + 256 * b[2] + 65536 * b[3] + 16777216 * b[4]

\* A signed 32-bit integer as four bytes (two's complement, little endian),
\* and back.
ToLE32(n) ==
    IF n >= 0 THEN BytesOf(n)
    ELSE [i \in 1..4 |-> 255 - BytesOf(0 - (n + 1))[i]]
FromLE32_magnitude(b) ==
    NumberOf([i \in 1..4 |-> IF i = 4 THEN b[i] % 128 ELSE b[i]])
FromLE32(b) ==
    IF b[4] < 128 THEN NumberOf(b)
    ELSE 0 - NumberOf([i \in 1..4 |-> 255 - b[i]]) - 1

\* Packet types on the wire, request ids and payload bytes to try.
PacketTypes == {0, 2, 3}
RequestIds == {-1, 258, MinInt32}
PayloadBytes == {65, 255}
Payloads ==
    UNION {[1..n -> PayloadBytes] : n \in 0..(ProtocolMax + 1)}

Packet(requestId, packetType, payload) ==
    [requestId |-> requestId, packetType |-> packetType, payload |-> payload]
NoPacket == Packet(0, 0, <<>>)

\* The bytes of a frame after its length prefix: two integers, the payload
\* and two null bytes.
HeaderLen == 8
TerminatorLen == 2

\* encode(requestId, packetType, payload): the frame, or EncodingError.
encode(requestId, packetType, payload) ==
    IF Len(payload) > ProtocolMax
    THEN [ok |-> FALSE, bytes |-> <<>>]
    ELSE [ok |-> TRUE,
          bytes |-> ToLE32(HeaderLen + Len(payload) + TerminatorLen)
                    \o ToLE32(requestId) \o ToLE32(packetType)
                    \o payload \o <<0, 0>>]

\* What tryDecode returns: a kind, the packet and the bytes consumed.
Decoded(kind, packet, consumed) ==
    [kind |-> kind, packet |-> packet, consumed |-> consumed]
Incomplete == Decoded("Incomplete", NoPacket, 0)
CorruptFrame == Decoded("CorruptFrame", NoPacket, 0)

\* tryDecode(buffer)
tryDecode_noprefix(buffer) ==
    IF Len(buffer) < 4 THEN Incomplete
    ELSE LET length == FromLE32(SubSeq(buffer, 1, 4)) IN
         IF Len(buffer) < length THEN Incomplete
         ELSE IF length < HeaderLen + TerminatorLen THEN CorruptFrame
         ELSE IF Len(buffer) < length + 4
                 \/ buffer[length + 3] # 0 \/ buffer[length + 4] # 0
              THEN CorruptFrame
         ELSE Decoded("Packet",
                      Packet(FromLE32(SubSeq(buffer, 5, 8)),
                             FromLE32(SubSeq(buffer, 9, 12)),
                             SubSeq(buffer, 13, length + 2)),
                      length + 4)
tryDecode(buffer) ==
    IF Len(buffer) < 4 THEN Incomplete
    ELSE LET length == FromLE32(SubSeq(buffer, 1, 4)) IN
         IF Len(buffer) < length + 4 THEN Incomplete
         ELSE IF length < HeaderLen + TerminatorLen THEN CorruptFrame
         ELSE IF buffer[length + 3] # 0 \/ buffer[length + 4] # 0
              THEN CorruptFrame
         ELSE Decoded("Packet",
                      Packet(FromLE32(SubSeq(buffer, 5, 8)),
                             FromLE32(SubSeq(buffer, 9, 12)),
                             SubSeq(buffer, 13, length + 2)),
                      length + 4)

\* Bytes that follow the frame on the stream: none, or the start of the
\* next frame.
Followers == {<<>>, <<11, 0>>, <<11, 0, 0, 0, 7>>}

\* A packet to send, nothing encoded yet, an empty receive buffer.
CodecInit ==
    /\ password = "bad"
    /\ client = None
    /\ _connected = FALSE
    /\ nextClient = 0
    /\ sockOpen = {}
    /\ opCalls = <<>>
    /\ lastRes = Ret("None")
    /\ lastOp = "init"
    /\ lastArg = ""
    /\ prevOp = "init"
    /\ pre = [state |-> [client |-> None, connected |-> FALSE, nextClient |-> 0,
                          sockOpen |-> {}],
              res |-> Ret("None")]
    /\ ThreadsInit
    /\ GuiFields
    /\ ctx = "none"
    /\ runs = <<>>
    /\ \E r \in RequestIds, t \in PacketTypes, pl \in Payloads :
          codec = [packet |-> Packet(r, t, pl),
                   phase |-> "new",
                   stream |-> <<>>,
                   buffer |-> <<>>,
                   before |-> <<>>,
                   result |-> Decoded("none", NoPacket, 0),
                   out |-> <<>>]

\* The sender encodes the packet and writes the frame to the stream.
Cd_Encode ==
    /\ codec.phase = "new"
    /\ LET e == encode(codec.packet.requestId, codec.packet.packetType,
                       codec.packet.payload) IN
       IF e.ok
       THEN \E f \in Followers :
              codec' = [codec EXCEPT !.phase = "sent", !.stream = e.bytes \o f]
       ELSE codec' = [codec EXCEPT !.phase = "EncodingError"]
    /\ UNCHANGED <<svcVars, histVars, thrVars, guiVars, ctx, runs, shownVars, uiVars>>

\* Some of the bytes on the stream reach the receive buffer.
Cd_Arrive ==
    /\ codec.stream # <<>>
    /\ \E k \in 1..Len(codec.stream) :
        codec' = [codec EXCEPT
            !.buffer = @ \o SubSeq(codec.stream, 1, k),
            !.stream = SubSeq(@, k + 1, Len(@))]
    /\ UNCHANGED <<svcVars, histVars, thrVars, guiVars, ctx, runs, shownVars, uiVars>>

\* The receiver applies tryDecode to its buffer and slides the buffer by
\* the bytes consumed.
Cd_TryDecode ==
    /\ codec.phase = "sent"
    /\ LET r == tryDecode(codec.buffer) IN
        codec' = [codec EXCEPT
            !.before = codec.buffer,
            !.result = r,
            !.buffer = SubSeq(@, r.consumed + 1, Len(@)),
            !.out = IF r.kind = "Packet" THEN Append(@, r.packet) ELSE @]
    /\ UNCHANGED <<svcVars, histVars, thrVars, guiVars, ctx, runs, shownVars, uiVars>>

CodecNext == Cd_Encode \/ Cd_Arrive \/ Cd_TryDecode

SpecCodec == CodecInit /\ [][CodecNext]_vars

\* ------------------------------------------------------------ properties
\* The calls of the last operation that ended a given way / used a method.
CallsOf(m) == {i \in 1..Len(opCalls) : opCalls[i][1] = m}
LoginAttempted == CallsOf("login") # {}
AllCallsOk == \A i \in 1..Len(opCalls) : opCalls[i][3] = "ok"

\* C1: with the correct password (and no transport fault) connect() succeeds
\* and is_connected() becomes true; with an incorrect password connect()
\* fails, the service is not connected, and every later command raises
\* without any call on the client.
C1_Authentication ==
    /\ (lastOp = "connect" /\ password = ServerPassword /\ AllCallsOk)
          => (lastRes = Ret("True") /\ is_connected)
    /\ (lastOp = "connect" /\ password # ServerPassword)
          => (lastRes = Raise("ConnectionError") /\ ~is_connected)
    /\ (lastOp \in CommandOps /\ password # ServerPassword)
          => (lastRes = Raise("RuntimeError") /\ opCalls = <<>> /\ ~is_connected)

C1_Witness ==
    /\ lastOp \in CommandOps
    /\ prevOp = "connect"
    /\ password # ServerPassword
    /\ client \in sockOpen

\* A thread is inside a call into the service.
InCall(t) == \E i \in 1..Len(stack[t]) : stack[t][i].fn \in ServiceFns

\* C2: the auto-refresh thread never calls the service itself, at most one
\* thread is inside a service call, and at most one request is in flight
\* on the connection.
C2_OneInFlight ==
    /\ ~InCall("refresh")
    /\ Cardinality({t \in Threads : InCall(t)}) <= 1
    /\ Len(wire) + Len(replies) <= 1

C2_Witness ==
    /\ InCall("main")
    /\ Len(wire) = 1
    /\ afterQueue > 0
    /\ At("refresh", "_auto_refresh_loop", "sleep")

\* C3 (as stated): the second request is not written until the first
\* response has been received, and every caller gets the response to its
\* own command.
C3_Serialized ==
    /\ Len(wire) + Len(replies) <= 1
    /\ \A t \in Callers :
          ret[t].val[1] = "resp" => ret[t].val = Response(ret[t].arg)

\* The command lines of the console.
IoLines == SelectSeq(console, LAMBDA e : e[1] \in {">", "<"})

\* The lines the submitted commands that returned are to leave: for each,
\* in submission order, the command and then its response.
RECURSIVE ExpectedLog(_)
ExpectedLog(sub) ==
    IF sub = <<>> THEN <<>>
    ELSE (IF Head(sub).res[1] = "resp"
          THEN <<Line(">", Head(sub).cmd), Line("<", Head(sub).cmd)>>
          ELSE <<>>) \o ExpectedLog(Tail(sub))

\* C4: the commands submitted one after the other are answered and logged
\* in submission order, each with the response to itself.
C4_SubmissionOrder ==
    /\ IoLines = ExpectedLog(submitted)
    /\ \A i \in 1..Len(submitted) :
          submitted[i].res[1] = "resp" => submitted[i].res = Response(submitted[i].cmd)

C4_Witness ==
    /\ Len(submitted) = 2
    /\ submitted[1].cmd = "time set day"
    /\ submitted[2].cmd = "time set night"
    /\ submitted[1].res[1] = "resp"
    /\ submitted[2].res[1] = "resp"
    /\ Len(IoLines) = 4

\* C5 (as stated): a command that failed with a transport error leaves the
\* service not connected, and the next command fails without I/O.
C5_FailedAfterTransportError ==
    /\ (lastOp \in CommandOps /\ lastRes = Raise("Exception")) => ~is_connected
    /\ (lastOp \in CommandOps /\ prevOp = "command" /\ pre.res = Raise("Exception"))
          => (lastRes = Raise("RuntimeError") /\ opCalls = <<>>)

\* C6: one send_command makes at most one run call, re-raises what the
\* client raised, and constructs or connects no client.
C6_NoRetry ==
    (lastOp = "send_command") =>
        /\ Cardinality(CallsOf("run")) <= 1
        /\ CallsOf("Client") = {} /\ CallsOf("connect") = {} /\ CallsOf("login") = {}
        /\ nextClient = pre.state.nextClient
        /\ (~AllCallsOk => lastRes = Raise("Exception"))
        /\ \A i \in CallsOf("run") : opCalls[i][2] = lastArg

C6_Witness ==
    /\ lastOp = "send_command"
    /\ lastRes = Raise("Exception")
    /\ Len(opCalls) = 1

\* C7 (as stated): disconnect() never raises, and a second consecutive
\* disconnect() changes no state and makes no call on the client.
C7_DisconnectIdempotent ==
    /\ (lastOp = "disconnect") => lastRes = Ret("None")
    /\ (lastOp = "disconnect" /\ prevOp = "disconnect")
          => (ServiceState = pre.state /\ opCalls = <<>>)

\* C8 (as stated): is_connected() is false initially, false after a failed
\* connect(), true after a successful one, false once disconnect() returned.
C8_IsConnectedReflectsReady ==
    /\ (lastOp = "init") => ~is_connected
    /\ (lastOp = "connect") => (is_connected <=> lastRes = Ret("True"))
    /\ (lastOp = "disconnect") => ~is_connected
    /\ (lastOp \in CommandOps) => (is_connected <=> pre.state.connected)

\* C9 (as stated): after a connect() whose login failed, the socket that
\* attempt opened is closed.
C9_ClosedAfterLoginFailure ==
    (lastOp = "connect" /\ LoginAttempted /\ lastRes = Raise("ConnectionError"))
        => client \notin sockOpen

\* C10: a command operation called while the service is not connected
\* raises RuntimeError, calls nothing on the client, changes no state.
C10_NotConnectedRaises ==
    (lastOp \in CommandOps /\ ~(pre.state.connected /\ pre.state.client # None))
        => /\ lastRes = Raise("RuntimeError")
           /\ opCalls = <<>>
           /\ ServiceState = pre.state

C10_Witness ==
    /\ lastOp \in DirectOps
    /\ pre.state.client # None
    /\ ~pre.state.connected
    /\ pre.state.client \in sockOpen

BlockLeft ==
    \/ lastOp \in {"__exit__", "finally"}
    \/ lastOp = "__enter__" /\ lastRes # Ret("True")

\* C12 (as stated): once a with block on the service is left (normally, by
\* an exception, or because connecting failed) the service is not connected;
\* connection() connects only when the service is not already connected.
C12_DisconnectedOnLeave ==
    /\ BlockLeft => ~is_connected
    /\ (lastOp = "connection" /\ pre.state.connected)
          => (opCalls = <<>> /\ nextClient = pre.state.nextClient)

\* C14: on a connected service send_command hands the command text to the
\* client as it is, in exactly one call, and returns what that call returned.
C14_PassThrough ==
    (lastOp = "send_command" /\ pre.state.connected /\ pre.state.client # None) =>
        /\ Len(opCalls) = 1
        /\ opCalls[1][1] = "run"
        /\ opCalls[1][2] = lastArg
        /\ opCalls[1][3] = "ok" => lastRes = Response(opCalls[1][2])
        /\ ServiceState = pre.state

C14_Witness ==
    /\ lastOp = "send_command"
    /\ lastArg = "time set night"
    /\ opCalls = <<Call("run", "time set night", "ok")>>
    /\ lastRes = Response("time set night")

\* The values formatted into the messages of run i.
LoggedValues(i) ==
    UNION {{runs.log[i][k][3], runs.log[i][k][4]} : k \in 1..Len(runs.log[i])}

\* C13 (as stated): two runs that differ only in the password write the
\* same sequence of log records and console lines.
C13_SameMessages == runs.log[1] = runs.log[2]

\* C13 (amended): no message holds the password, and two runs that differ
\* only in the password write the same messages as long as every login
\* ended the same way in both.
C13_PasswordNotLogged ==
    /\ \A i \in Runs : runs.password[i] \notin LoggedValues(i)
    /\ runs.sameLogins => runs.log[1] = runs.log[2]

C13_Witness ==
    /\ runs.password[1] # runs.password[2]
    /\ runs.sameLogins
    /\ Len(runs.log[1]) >= 4
    /\ runs.log[1][1][2] = "Failed to connect to"
    /\ runs.log[1][2][3] = "wrong password"
    /\ runs.log[1][3][4] = "timed out"

\* The frame of the packet of this run.
Encoding == encode(codec.packet.requestId, codec.packet.packetType,
                   codec.packet.payload)

\* C15: for a packet whose payload is within the protocol maximum,
\* tryDecode of its encoding is the packet itself, with the whole frame
\* consumed; the receiver gets no other packet out of the frame.
C15_RoundTrip ==
    /\ Encoding.ok =>
          tryDecode(Encoding.bytes)
              = Decoded("Packet", codec.packet, Len(Encoding.bytes))
    /\ \A i \in 1..Len(codec.out) : i = 1 /\ codec.out[i] = codec.packet
    /\ codec.result.kind # "CorruptFrame"

C15_Witness ==
    /\ codec.out = <<codec.packet>>
    /\ codec.packet.requestId = -1
    /\ codec.packet.packetType = 3
    /\ Len(codec.packet.payload) = ProtocolMax
    /\ Len(codec.buffer) = 5

\* The length the first four bytes of a buffer declare.
Declared(buffer) == FromLE32(SubSeq(buffer, 1, 4))

\* C16: tryDecode on a buffer that holds fewer bytes than the declared
\* length plus the 4-byte prefix returns Incomplete and consumes nothing:
\* the buffer is as it was.
C16_IncompleteConsumesNothing ==
    (/\ codec.result.kind # "none"
     /\ Len(codec.before) >= 4
     /\ Len(codec.before) < Declared(codec.before) + 4)
        => /\ codec.result = Incomplete
           /\ \E k \in 0..Len(codec.buffer) :
                 SubSeq(codec.buffer, 1, k) = codec.before

C16_Witness ==
    /\ codec.result = Incomplete
    /\ Len(codec.before) >= 4
    /\ Len(codec.before) >= Declared(codec.before)
    /\ Len(codec.before) < Declared(codec.before) + 4
    /\ codec.buffer = codec.before

\* C18 (as stated): once the operator has confirmed the connection dialog
\* with a host and a port that is a number, and the handlers have returned,
\* the entered details are the stored ones and the service was built with
\* them; after a cancel the stored details are as they were.
C18_DialogConnects ==
    /\ (dialog.window = "destroyed" /\ dialog.result # <<>> /\ stack["main"] = <<>>)
          => (server_password = dialog.result[1] /\ rcon_service # None)
    /\ (dialog.window = "destroyed" /\ dialog.result = <<>>) => server_password = ""

\* C19 (as stated): no exception of a service call leaves the handler that
\* made the call.
C19_NoEscape == escaped = "none"

\* C20 (as stated): the count in the label "Players Online: N/M" is the
\* number of names in the player list whenever no refresh is under way.
C20_CountMatchesList == players_label = players_textbox

\* C21 (as stated): of the client connections the service opened at most
\* one is open, and none is open while is_connected() is false.
C21_OneConnectionOpen ==
    /\ Cardinality(sockOpen) <= 1
    /\ ~is_connected => sockOpen = {}

\* C22 (as stated): once the operator has ended the application, by closing
\* the window or by File > Exit, the stop event is set and the GUI is
\* disconnected.
C22_ClosedOnExit ==
    Terminated => (stop_refresh /\ ~connected /\ rcon_service = None)

\* C23 (as stated): once the operator confirmed Stop Server, stop_server()
\* passed its connection check and the handler returned, the GUI is
\* disconnected, whether the server answered or the call raised.
C23_StoppedMeansDisconnected ==
    (/\ stack["main"] = <<>>
     /\ ret["main"].arg = "stop_server"
     /\ ret["main"].val # Raise("RuntimeError"))
        => (~connected /\ rcon_service = None)

\* A refresh_player_list on thread t has passed its check of self.connected.
RefreshRunning(t) ==
    \E i \in 1..Len(stack[t]) :
        stack[t][i].fn = "refresh_player_list" /\ stack[t][i].pc # "start"

\* Where a thread is: the position of its innermost call.
PcOf(frames) == IF frames = <<>> THEN "returned" ELSE frames[Len(frames)].pc

\* C24: a refresh runs past its check, and so sends list commands, only
\* while the GUI is connected; the polling loop reaches root.after only
\* from an iteration that read auto_refresh and connected as true, and
\* nothing else schedules a refresh.
C24_NoListWhileDisconnected ==
    /\ [](\A t \in GuiThreads :
            RefreshRunning(t) => (connected /\ rcon_service # None))
    /\ [][/\ (PcOf(stack'["refresh"]) = "after" /\ PcOf(stack["refresh"]) # "after")
               => (connected /\ PcOf(stack["refresh"]) = "if_connected")
          /\ (PcOf(stack'["refresh"]) = "if_connected"
                 /\ PcOf(stack["refresh"]) # "if_connected")
               => auto_refresh
          /\ (afterQueue' > afterQueue) => PcOf(stack["refresh"]) = "after"]_vars

C24_Witness ==
    /\ At("main", "refresh_player_list", "start")
    /\ Len(stack["main"]) = 1
    /\ ~connected
    /\ console # <<>>
    /\ console[Len(console)] = Line("info", "Disconnected from server")
    /\ At("refresh", "_auto_refresh_loop", "after")

\* C25: once the stop event is set the auto-refresh thread eventually
\* returns from its loop; from the loop condition it starts no further
\* iteration; and root.after on the destroyed window leaves the thread in
\* its loop, on its way to sleep.
C25_RefreshThreadStops ==
    /\ stop_refresh ~> (stack["refresh"] = <<>>)
    /\ [][/\ (stop_refresh /\ PcOf(stack["refresh"]) = "while"
                 /\ stack'["refresh"] # stack["refresh"])
               => stack'["refresh"] = <<>>
          /\ (destroyed /\ PcOf(stack["refresh"]) = "after"
                 /\ stack'["refresh"] # stack["refresh"])
               => (PcOf(stack'["refresh"]) = "sleep" /\ afterQueue' = afterQueue)]_vars

C25_Witness ==
    /\ stop_refresh
    /\ destroyed
    /\ stack["refresh"] = <<>>
    /\ console # <<>>
    /\ console[Len(console)] = Line("info", "Disconnected from server")

====
